---- MODULE Spec2Model ----
(***************************************************************************)
(* A model of the segmented, append-only key-value store of package        *)
(* datastore (db.go, record.go).  Files are byte sequences, records are    *)
(* encoded and decoded byte by byte as the codec does, and the buffered    *)
(* reader that DecodeFromReader is handed is modelled with its capacity.   *)
(***************************************************************************)
EXTENDS Integers, Sequences, FiniteSets, TLC

(***************************************************************************)
(* Record codec (record.go)                                                *)
(***************************************************************************)

DataTypeString == 1
DataTypeInt64 == 2

recordLenSize == 4
dataTypeSize == 1
keyLenSize == 4
valLenSize == 4
recordHeaderSize == recordLenSize + dataTypeSize + keyLenSize + valLenSize

Min(a, b) == IF a < b THEN a ELSE b

\* A local variable: v is evaluated once and F is applied to its value.
With(v, F(_)) == CHOOSE y \in { F(x) : x \in {v} } : TRUE

\* The four bytes of n with the most significant byte first.
PutUint32BigEndian(n) ==
  << (n \div 16777216) % 256, (n \div 65536) % 256, (n \div 256) % 256, n % 256 >>

\* binary.LittleEndian, uint32 <-> 4 bytes
PutUint32(n) ==
  << n % 256, (n \div 256) % 256, (n \div 65536) % 256, (n \div 16777216) % 256 >>

Uint32(b) == b[1] + 256 * b[2] + 65536 * b[3] + 16777216 * b[4]

\* A value is a tagged variant: a string (its bytes) or an int64.
StringValue(s) == [kind |-> "string", s |-> s, n |-> 0]
Int64Value(n) == [kind |-> "int64", s |-> << >>, n |-> n]

\* binary.Write(buf, LittleEndian, int64): 8 bytes, two's complement.
RECURSIVE LowBytes(_, _)
LowBytes(n, count) ==
  IF count = 0 THEN << >> ELSE << n % 256 >> \o LowBytes(n \div 256, count - 1)

encodeInt64(v) ==
  IF v.kind # "int64" THEN [ok |-> FALSE, bytes |-> << >>]
  ELSE IF v.s # << >> THEN [ok |-> TRUE, bytes |-> v.s]
  ELSE IF v.n >= 0 THEN [ok |-> TRUE, bytes |-> LowBytes(v.n, 8)]
  ELSE [ok |-> TRUE,
        bytes |-> [i \in 1..8 |-> 255 - LowBytes((0 - v.n) - 1, 8)[i]]]

encodeString(v) ==
  IF v.kind # "string" THEN [ok |-> FALSE, bytes |-> << >>]
  ELSE [ok |-> TRUE, bytes |-> v.s]

encodeValue(r) ==
  IF r.dataType = 0 THEN [ok |-> FALSE, bytes |-> << >>]
  ELSE IF r.dataType = DataTypeString THEN encodeString(r.value)
  ELSE IF r.dataType = DataTypeInt64 THEN encodeInt64(r.value)
  ELSE [ok |-> FALSE, bytes |-> << >>]

\* record.Encode: header (recordLen, dataType, keyLen, valLen), key, value.
Encode(r) ==
  With(encodeValue(r), LAMBDA vb :
    IF ~vb.ok THEN [ok |-> FALSE, bytes |-> << >>]
    ELSE [ok |-> TRUE,
          bytes |-> PutUint32(recordHeaderSize + Len(vb.bytes) + Len(r.key))
                      \o << r.dataType >> \o PutUint32(Len(r.key))
                      \o PutUint32(Len(vb.bytes)) \o r.key \o vb.bytes])

NewStringRecord(key, value) ==
  [key |-> key, value |-> StringValue(value), dataType |-> DataTypeString]

NewInt64Record(key, value) ==
  [key |-> key, value |-> Int64Value(value), dataType |-> DataTypeInt64]

NoRecord == [key |-> << >>, value |-> StringValue(<< >>), dataType |-> 0]

\* A buffer of `len` bytes of which the first Len(data) were filled by the
\* read; make([]byte, n) zeroes the rest.
BufAt(buf, i) == IF i <= Len(buf.data) THEN buf.data[i] ELSE 0

BufSlice(buf, from, count) == [i \in 1..count |-> BufAt(buf, from + i)]

decodeString(valueBytes) == [ok |-> TRUE, value |-> StringValue(valueBytes)]

\* A decodeInt64 that takes value bytes of any length.
decodeInt64AnyLen(valueBytes) ==
  [ok |-> TRUE, value |-> [kind |-> "int64", s |-> valueBytes, n |-> 0]]

\* int64(binary.LittleEndian.Uint64(valueBytes)); values of the model stay
\* within 31 bits, anything wider is kept as its bytes.
decodeInt64(valueBytes) ==
  IF Len(valueBytes) # 8 THEN [ok |-> FALSE, value |-> StringValue(<< >>)]
  ELSE IF \A i \in 5..8 : valueBytes[i] = 0 /\ valueBytes[4] < 128
    THEN [ok |-> TRUE, value |-> Int64Value(Uint32(SubSeq(valueBytes, 1, 4)))]
  ELSE IF \A i \in 5..8 : valueBytes[i] = 255 /\ valueBytes[4] >= 128
    THEN [ok |-> TRUE,
          value |-> Int64Value(
            0 - (Uint32([i \in 1..4 |-> 255 - valueBytes[i]]) + 1))]
  ELSE [ok |-> TRUE, value |-> [kind |-> "int64", s |-> valueBytes, n |-> 0]]

decodeValue(dataType, valueBytes) ==
  IF dataType = 0 THEN [ok |-> FALSE, value |-> StringValue(<< >>)]
  ELSE IF dataType = DataTypeString THEN decodeString(valueBytes)
  ELSE IF dataType = DataTypeInt64 THEN decodeInt64(valueBytes)
  ELSE [ok |-> FALSE, value |-> StringValue(<< >>)]

\* record.Decode(input), input given as a buffer (see BufAt).
recordHeader(buf) ==
  [RecordLen |-> Uint32(BufSlice(buf, 0, 4)),
   DataType |-> BufAt(buf, 5),
   KeyLen |-> Uint32(BufSlice(buf, 5, 4)),
   ValLen |-> Uint32(BufSlice(buf, 9, 4))]

Decode(buf) ==
  IF buf.len < recordHeaderSize THEN [ok |-> FALSE, rec |-> NoRecord]
  ELSE
    With(recordHeader(buf), LAMBDA header :
    With(recordHeaderSize + header.KeyLen + header.ValLen, LAMBDA expectedLen :
      IF buf.len < expectedLen THEN [ok |-> FALSE, rec |-> NoRecord]
      ELSE IF header.RecordLen # expectedLen THEN [ok |-> FALSE, rec |-> NoRecord]
      ELSE
        With(BufSlice(buf, recordHeaderSize + header.KeyLen, header.ValLen),
             LAMBDA valueBytes :
        With(decodeValue(header.DataType, valueBytes), LAMBDA dv :
          IF ~dv.ok THEN [ok |-> FALSE, rec |-> NoRecord]
          ELSE [ok |-> TRUE,
                rec |-> [key |-> BufSlice(buf, recordHeaderSize, header.KeyLen),
                         value |-> dv.value,
                         dataType |-> header.DataType]]))))

\* Capacity of the bufio.Reader that wraps a segment file (bufio.NewReader).
BufSize == 32

\* record.DecodeFromReader(in).  The reader is over file `f`; `r` bytes of the
\* file have been consumed and bytes r+1..w are in its buffer.  Peek(4) fills
\* the buffer only when fewer than 4 bytes are buffered; Read copies what is
\* buffered, at most len(buf) bytes, and does no second read of the file.
DecodeFromReader(f, r, w) ==
  With(IF w - r >= recordLenSize THEN w ELSE Min(r + BufSize, Len(f)), LAMBDA w1 :
    IF w1 - r < recordLenSize
      THEN [n |-> 0, err |-> "EOF", rec |-> NoRecord, w |-> w1]
    ELSE
      With(Uint32(SubSeq(f, r + 1, r + 4)), LAMBDA recordLen :
      With(Min(recordLen, w1 - r), LAMBDA n :
      With([len |-> recordLen, data |-> SubSeq(f, r + 1, r + n)], LAMBDA buf :
      With(Decode(buf), LAMBDA d :
        IF ~d.ok THEN [n |-> n, err |-> "decode", rec |-> NoRecord, w |-> w1]
        ELSE [n |-> n, err |-> "nil", rec |-> d.rec, w |-> w1])))))

(***************************************************************************)
(* Segment files (db.go)                                                   *)
(***************************************************************************)

\* A segment file "segment-<ts>" is named by its timestamp ts >= 1; TmpName
\* stands for "segment-tmp", whose suffix strconv.ParseInt rejects.
TmpName == 0

NoFile == 0 - 1

ParseInt(name) == [ok |-> name # TmpName, ts |-> name]

recordPosition(seg, off) == [segment |-> seg, offset |-> off]

EmptyIndex == [k \in {} |-> recordPosition(NoFile, 0)]

\* dst[key] = pos for every (key, pos) of src
MergeIndex(dst, src) ==
  [k \in DOMAIN dst \cup DOMAIN src |-> IF k \in DOMAIN src THEN src[k] ELSE dst[k]]

RECURSIVE scanLoop(_, _, _, _, _)
scanLoop(f, path, r, w, idx) ==
  With(DecodeFromReader(f, r, w), LAMBDA x :
    IF x.err = "EOF"
      THEN [ok |-> x.n = 0, index |-> idx]
    ELSE IF x.err # "nil"
      THEN [ok |-> FALSE, index |-> EmptyIndex]
    ELSE
      With(MergeIndex(idx, [k \in {x.rec.key} |-> recordPosition(path, r)]),
           LAMBDA idx1 :
      With(r + x.n, LAMBDA r1 : scanLoop(f, path, r1, x.w, idx1))))

\* getIndexFromPath(path) on directory d
getIndexFromPath(d, path) ==
  IF path \notin DOMAIN d THEN [ok |-> FALSE, index |-> EmptyIndex]
  ELSE With(d[path], LAMBDA f : scanLoop(f, path, 0, 0, EmptyIndex))

\* getFromPath(rec, path, offset) on directory d
getFromPath(d, path, offset) ==
  IF path \notin DOMAIN d THEN [err |-> "open", rec |-> NoRecord]
  ELSE With(d[path], LAMBDA f :
       With(DecodeFromReader(f, offset, offset), LAMBDA x :
         [err |-> x.err, rec |-> x.rec]))

RECURSIVE SortedSeq(_)
SortedSeq(S) ==
  IF S = {} THEN << >>
  ELSE With(CHOOSE x \in S : \A y \in S : x <= y, LAMBDA m :
         << m >> \o SortedSeq(S \ {m}))

\* Db.loadSegments: the files whose suffix parses, by ascending timestamp
loadSegments(d) == SortedSeq({name \in DOMAIN d : ParseInt(name).ok})

\* Db.rebuildIndexLocked over segs, then the active segment cur (NoFile: nil)
RECURSIVE rebuildFrom(_, _, _)
rebuildFrom(d, paths, idx) ==
  IF paths = << >> THEN [ok |-> TRUE, index |-> idx]
  ELSE With(getIndexFromPath(d, Head(paths)), LAMBDA x :
         IF ~x.ok THEN [ok |-> FALSE, index |-> idx]
         ELSE With(MergeIndex(idx, x.index), LAMBDA idx1 :
                rebuildFrom(d, Tail(paths), idx1)))

rebuildIndexLocked(d, segs, cur) ==
  rebuildFrom(d, IF cur = NoFile THEN segs ELSE Append(segs, cur), EmptyIndex)

\* Db.get(rec, key) evaluated on index idx and directory d
get(idx, d, key) ==
  IF key \notin DOMAIN idx THEN [err |-> "ErrNotFound", rec |-> NoRecord]
  ELSE getFromPath(d, idx[key].segment, idx[key].offset)

\* Db.Get(key): the string stored, or the error of get, or the failed type
\* assertion rec.value.(string).
Get(idx, d, key) ==
  With(get(idx, d, key), LAMBDA g :
    IF g.err # "nil" THEN [err |-> g.err, value |-> StringValue(<< >>)]
    ELSE IF g.rec.value.kind # "string"
      THEN [err |-> "type", value |-> StringValue(<< >>)]
    ELSE [err |-> "nil", value |-> g.rec.value])

\* Db.GetInt64(key)
GetInt64(idx, d, key) ==
  With(get(idx, d, key), LAMBDA g :
    IF g.err # "nil" THEN [err |-> g.err, value |-> Int64Value(0)]
    ELSE IF g.rec.value.kind # "int64"
      THEN [err |-> "type", value |-> Int64Value(0)]
    ELSE [err |-> "nil", value |-> g.rec.value])

(***************************************************************************)
(* Store engine (db.go)                                                    *)
(***************************************************************************)

\* Bounds of the model.
MaxPuts == 4
MaxOpens == 1
LongLen == 20
MaxFaults == 1

LongString == [i \in 1..LongLen |-> 3]

NoValue == [kind |-> "none", s |-> << >>, n |-> 0]

VARIABLES
  disk,            \* the data directory: file name -> bytes
  clock,           \* last value returned by time.Now().UnixNano()
  phase,           \* "open", "down" (process stopped), "failed" (open returned an error)
  segments,        \* Db.segments
  index,           \* Db.index
  currentSegment,  \* Db.currentSegment (name of the open file)
  currentOffset,   \* Db.currentOffset
  fileClosed,      \* the file handle Db.currentSegment has been closed
  compacting,      \* Db.compacting
  mu,              \* Db.mu write holder: "free", "close", "compact"
  comp,            \* the goroutines started by `go db.compact(ts)`: ts -> locals
  closer,          \* position of the caller of Close
  reader,          \* position and locals of the caller of Get
  last,            \* history: key -> value of its last successful put
  nputs,           \* history: number of puts
  opens,           \* history: number of times the directory was opened again
  origin,          \* history: how this engine was created
  commits,         \* history: compactions of this engine that committed their swap
  skipped,         \* history: compact calls that returned at the compare-and-swap
  waited,          \* history: Close has waited on the condition variable
  crashAt,         \* history: what was going on when the process stopped
  params,          \* Db.maxSegmentSize, Db.compactionThreshold and the calls the clients make
  faults,          \* history: number of I/O operations that failed
  putErr,          \* history: what the last call of put returned
  sized,           \* history: the last call of Size
  cut,             \* history: a segment file was truncated while the process was down
  codec,           \* the codec called on its own: input, position and results
  balancer         \* the load balancer: healthStatus and the requests it served

vars == << disk, clock, phase, segments, index, currentSegment, currentOffset,
           fileClosed, compacting, mu, comp, closer, reader, last, nputs,
           opens, origin, commits, skipped, waited, crashAt,
           params, faults, putErr, sized, cut, codec, balancer >>

\* open(dir, maxSegmentSize, compactionThreshold) of the scenarios, and the
\* calls Put(key, value), PutInt64(key, value) their clients make.  LongString
\* makes a frame longer than the reader's buffer.
defaultParams ==
  [maxSegmentSize |-> 37, compactionThreshold |-> 2, puts |-> MaxPuts,
   coarseClock |-> FALSE,
   strings |-> { << 1 >> } \X { << 1 >>, << 2 >>, LongString },
   ints |-> { << << 2 >>, 7 >> },
   keys |-> { << 1 >>, << 2 >> }]

\* How many puts the clients of the scenario make.
PutLimit == params.puts

maxSegmentSize == params.maxSegmentSize
compactionThreshold == params.compactionThreshold

Keys == params.keys
StringPuts == params.strings
Int64Puts == params.ints

hist == << commits, skipped, waited, crashAt >>

aux == << params, faults, putErr, sized, cut, codec, balancer >>

dbVars == << segments, index, currentSegment, currentOffset >>

\* The part of the state the engine's locked helpers work on.
World == [disk |-> disk, clock |-> clock, segments |-> segments, index |-> index,
          currentSegment |-> currentSegment, currentOffset |-> currentOffset]

\* time.Now().UnixNano(): the reading that follows w.clock, the last one the
\* clock has moved past.
Now(w) == w.clock + 1

\* os.OpenFile(path, O_APPEND|O_WRONLY|O_CREATE)
OpenFile(d, path) ==
  IF path \in DOMAIN d THEN d ELSE [n \in DOMAIN d \cup {path} |->
                                      IF n = path THEN << >> ELSE d[n]]

\* os.Remove(path); the code ignores its error
Remove(d, path) == [n \in DOMAIN d \ {path} |-> d[n]]

\* currentSegment.Write(data) on a file opened with O_APPEND
WriteFile(d, path, data) == [d EXCEPT ![path] = @ \o data]

createCurrentSegmentLocked(w) ==
  With(Now(w), LAMBDA ts :
  With(OpenFile(w.disk, ts), LAMBDA d1 :
    [w EXCEPT !.clock = ts, !.disk = d1, !.currentSegment = ts,
              !.currentOffset = Len(d1[ts])]))

rotateSegmentLocked(w) ==
  createCurrentSegmentLocked([w EXCEPT !.segments = Append(@, w.currentSegment)])

\* A rotation test that also rotates when the record fills the segment to its
\* limit exactly.
NeedsRotationAtLimit(w, data) == w.currentOffset + Len(data) >= maxSegmentSize

\* The rotation test of put.
NeedsRotation(w, data) == w.currentOffset + Len(data) > maxSegmentSize

\* A dispatch test that waits for one segment more than the threshold.
NeedsCompactionAbove(w) == Len(w.segments) > compactionThreshold

\* The dispatch test of put, on the state after the rotation.
NeedsCompaction(w) == Len(w.segments) >= compactionThreshold

\* The clock after put has read ts (db.go:295): on a coarse clock the reading
\* createCurrentSegmentLocked makes during the rotation returns ts again.
AfterReading(w, ts) == IF params.coarseClock THEN w ELSE [w EXCEPT !.clock = ts]

\* Db.put under the write lock.  Returns the new state and the timestamp handed
\* to `go db.compact(ts)` (NoFile when none is started).
put(w, rec) ==
  With(Encode(rec).bytes, LAMBDA data :
  With(NeedsRotation(w, data), LAMBDA rot :
  With(Now(w), LAMBDA ts :
  With(IF rot THEN rotateSegmentLocked(AfterReading(w, ts)) ELSE w, LAMBDA w1 :
    [w |-> [w1 EXCEPT
              !.disk = WriteFile(w1.disk, w1.currentSegment, data),
              !.index = MergeIndex(w1.index,
                          [k \in {rec.key} |->
                             recordPosition(w1.currentSegment, w1.currentOffset)]),
              !.currentOffset = w1.currentOffset + Len(data)],
     go |-> IF rot /\ NeedsCompaction(w1) THEN ts ELSE NoFile]))))

\* open(dir, ...) on directory d at time clk
open(d, clk) ==
  With(loadSegments(d), LAMBDA segs :
  With(rebuildIndexLocked(d, segs, NoFile), LAMBDA rb :
  With([disk |-> d, clock |-> clk, segments |-> segs, index |-> rb.index,
        currentSegment |-> NoFile, currentOffset |-> 0], LAMBDA w0 :
    [ok |-> rb.ok, w |-> IF rb.ok THEN createCurrentSegmentLocked(w0) ELSE w0])))

\* A getNewSegments that forgets the segments sealed after the snapshot.
getNewSegmentsNone(segs, oldSegs) == << >>

\* A getNewSegments that keeps every segment of the list.
getNewSegmentsAll(segs, oldSegs) == segs

\* Db.getNewSegments(oldSegs)
getNewSegments(segs, oldSegs) ==
  SelectSeq(segs, LAMBDA s : \A i \in 1..Len(oldSegs) : oldSegs[i] # s)

\* A compare-and-swap that does not compare: it succeeds whatever the flag is.
CompareAndSwapBlind(flag) == TRUE

\* compacting.CompareAndSwap(false, true) succeeds
CompareAndSwap(flag) == flag = FALSE

NewTask ==
  [pc |-> "cas", segsBefore |-> << >>, indexBefore |-> EmptyIndex,
   segsAfter |-> << >>, indexAfter |-> EmptyIndex, i |-> 1,
   finished |-> FALSE, compPath |-> TmpName]

IdleReader == [pc |-> "idle", key |-> << >>, found |-> FALSE,
               pos |-> recordPosition(NoFile, 0)]

Spawn(c, ts) == [t \in DOMAIN c \cup {ts} |-> IF t = ts THEN NewTask ELSE c[t]]

Exit(c, t) == [u \in DOMAIN c \ {t} |-> c[u]]

\* No call of Size has been made.
NoSize == [valid |-> FALSE, n |-> 0, expect |-> 0, commits |-> 0]

\* The state after open(dir, p.maxSegmentSize, p.compactionThreshold) on an
\* empty directory.
InitEngine(p) ==
  \E o \in { open([n \in {} |-> << >>], 0) } :
     /\ params = p
     /\ faults = 0
     /\ putErr = "none"
     /\ sized = NoSize
     /\ cut = FALSE
     /\ disk = o.w.disk
     /\ clock = o.w.clock
     /\ phase = "open"
     /\ segments = o.w.segments
     /\ index = o.w.index
     /\ currentSegment = o.w.currentSegment
     /\ currentOffset = o.w.currentOffset
     /\ fileClosed = FALSE
     /\ compacting = FALSE
     /\ mu = "free"
     /\ comp = [t \in {} |-> NewTask]
     /\ closer = "idle"
     /\ reader = IdleReader
     /\ last = [k \in p.keys |-> NoValue]
     /\ nputs = 0
     /\ opens = 0
     /\ origin = "init"
     /\ commits = 0
     /\ skipped = 0
     /\ waited = FALSE
     /\ crashAt = "none"

\* What DecodeFromReader returns, before any call.
NoRead == [n |-> 0, err |-> "none", rec |-> NoRecord, w |-> 0]

\* The codec is not called on its own.
NoCodec ==
  [pc |-> "off", rec |-> NoRecord, enc |-> [ok |-> FALSE, bytes |-> << >>],
   input |-> << >>, dec |-> [ok |-> FALSE, rec |-> NoRecord],
   recs |-> << >>, f |-> << >>, r |-> 0, w |-> 0, i |-> 0, res |-> NoRead,
   scan |-> [ok |-> FALSE, index |-> EmptyIndex]]

\* The balancer after start: healthStatus = make(map[string]bool), no request yet.
NoBalancer ==
  [healthStatus |-> [s \in {} |-> FALSE], n |-> 0, addr |-> << >>,
   at |-> [s \in {} |-> FALSE], res |-> [server |-> "", err |-> "none"],
   dst |-> << >>, status |-> << >>]

InitWith(p) == InitEngine(p) /\ codec = NoCodec /\ balancer = NoBalancer

Init == InitWith(defaultParams)

\* mu.Lock() can be taken: no writer and no reader holds mu
CanLock == mu = "free" /\ reader.pc = "idle"

\* mu.RLock() can be taken: no writer holds mu
CanRLock == mu = "free"

(***************************************************************************)
(* Put / PutInt64: one critical section under mu.Lock()                    *)
(***************************************************************************)
PutRecord(rec) ==
  /\ phase = "open"
  /\ ~fileClosed
  /\ CanLock
  /\ nputs < PutLimit
  /\ Encode(rec).ok
  /\ \E p \in { put(World, rec) } :
        /\ disk' = p.w.disk
        /\ clock' = p.w.clock
        /\ segments' = p.w.segments
        /\ index' = p.w.index
        /\ currentSegment' = p.w.currentSegment
        /\ currentOffset' = p.w.currentOffset
        /\ comp' = IF p.go = NoFile THEN comp ELSE Spawn(comp, p.go)
  /\ last' = [last EXCEPT ![rec.key] = rec.value]
  /\ nputs' = nputs + 1
  /\ putErr' = "nil"
  /\ sized' = IF sized.valid
                THEN [sized EXCEPT !.expect = @ + Len(Encode(rec).bytes)]
                ELSE sized
  /\ UNCHANGED << phase, fileClosed, compacting, mu, closer, reader, opens, origin,
                  hist, params, codec, balancer, faults, cut >>

Put == \E c \in StringPuts : PutRecord(NewStringRecord(c[1], c[2]))

PutInt64 == \E c \in Int64Puts : PutRecord(NewInt64Record(c[1], c[2]))

(***************************************************************************)
(* Put / PutInt64 that return an I/O error                                 *)
(***************************************************************************)
\* The steps of put that can return an error: currentSegment.Close() and
\* os.OpenFile of the rotation, currentSegment.Write, currentSegment.Sync.
PutSteps == { "close", "create", "write", "sync" }

\* The number of bytes a failed Write has appended: none, or all but the last.
WrittenBefore(data) == { 0, Len(data) - 1 }

\* A put that sets the index entry of its key first and fails afterwards.
putIndexFirst(w, rec, step, n) ==
  [w |-> [w EXCEPT !.index = MergeIndex(w.index,
                     [k \in {rec.key} |->
                        recordPosition(w.currentSegment, w.currentOffset)])],
   go |-> NoFile, closed |-> FALSE]

\* Db.put when its step `step` fails; a failed Write has appended n bytes.
\* A Close that returns an error has closed the file all the same, and the
\* goroutine `go db.compact(ts)` is started before the Write.
putFailed(w, rec, step, n) ==
  With(Encode(rec).bytes, LAMBDA data :
  With(Now(w), LAMBDA ts :
    IF step = "close"
      THEN [w |-> [w EXCEPT !.clock = ts], go |-> NoFile, closed |-> TRUE]
    ELSE IF step = "create"
      THEN [w |-> [w EXCEPT !.clock = ts + 1,
                            !.segments = Append(@, w.currentSegment)],
            go |-> NoFile, closed |-> TRUE]
    ELSE
      With(NeedsRotation(w, data), LAMBDA rot :
      With(IF rot THEN rotateSegmentLocked(AfterReading(w, ts)) ELSE w, LAMBDA w1 :
        [w |-> [w1 EXCEPT
                  !.disk = WriteFile(w1.disk, w1.currentSegment,
                             SubSeq(data, 1, IF step = "sync" THEN Len(data) ELSE n))],
         go |-> IF rot /\ NeedsCompaction(w1) THEN ts ELSE NoFile,
         closed |-> FALSE]))))

PutFails(rec) ==
  /\ phase = "open"
  /\ ~fileClosed
  /\ CanLock
  /\ nputs < PutLimit
  /\ faults < MaxFaults
  /\ Encode(rec).ok
  /\ \E step \in PutSteps :
     \E n \in WrittenBefore(Encode(rec).bytes) :
        /\ step \in {"close", "create"} => NeedsRotation(World, Encode(rec).bytes)
        /\ step # "write" => n = 0
        /\ \E p \in { putFailed(World, rec, step, n) } :
              /\ disk' = p.w.disk
              /\ clock' = p.w.clock
              /\ segments' = p.w.segments
              /\ index' = p.w.index
              /\ currentSegment' = p.w.currentSegment
              /\ currentOffset' = p.w.currentOffset
              /\ fileClosed' = p.closed
              /\ comp' = IF p.go = NoFile THEN comp ELSE Spawn(comp, p.go)
  /\ nputs' = nputs + 1
  /\ faults' = faults + 1
  /\ putErr' = "io"
  /\ UNCHANGED << phase, compacting, mu, closer, reader, last, opens, origin,
                  hist, params, codec, balancer, sized, cut >>

\* Db.put on an engine whose file handle is closed: the Close of the rotation,
\* or else the Write, returns os.ErrClosed.
PutOnClosed(rec) ==
  /\ phase = "open"
  /\ fileClosed
  /\ CanLock
  /\ nputs < PutLimit
  /\ Encode(rec).ok
  /\ clock' = IF NeedsRotation(World, Encode(rec).bytes) THEN Now(World) ELSE clock
  /\ nputs' = nputs + 1
  /\ putErr' = "closed"
  /\ UNCHANGED << disk, phase, dbVars, fileClosed, compacting, mu, comp, closer,
                  reader, last, opens, origin, hist, params, codec, balancer, faults, sized, cut >>

PutCalls ==
  { NewStringRecord(c[1], c[2]) : c \in StringPuts }
    \cup { NewInt64Record(c[1], c[2]) : c \in Int64Puts }

PutFault == \E rec \in PutCalls : PutFails(rec)

PutClosed == \E rec \in PutCalls : PutOnClosed(rec)

(***************************************************************************)
(* Get: RLock, index lookup, read of the file, RUnlock                     *)
(***************************************************************************)
GetBegin ==
  /\ phase = "open"
  /\ reader.pc = "idle"
  /\ CanRLock
  /\ \E k \in Keys :
       reader' = [pc |-> "locked", key |-> k, found |-> k \in DOMAIN index,
                  pos |-> IF k \in DOMAIN index THEN index[k]
                          ELSE recordPosition(NoFile, 0)]
  /\ UNCHANGED << disk, clock, phase, dbVars, fileClosed, compacting, mu, comp,
                  closer, last, nputs, opens, origin, hist, aux >>

\* What the Get in progress returns if it reads the file now.
ReaderResult ==
  IF ~reader.found THEN [err |-> "ErrNotFound", rec |-> NoRecord]
  ELSE getFromPath(disk, reader.pos.segment, reader.pos.offset)

GetEnd ==
  /\ reader.pc = "locked"
  /\ reader' = IdleReader
  /\ UNCHANGED << disk, clock, phase, dbVars, fileClosed, compacting, mu, comp,
                  closer, last, nputs, opens, origin, hist, aux >>

(***************************************************************************)
(* Size: RLock, os.Stat of every sealed segment and of the active one      *)
(***************************************************************************)
RECURSIVE SumSizes(_, _)
SumSizes(d, segs) ==
  IF segs = << >> THEN 0 ELSE Len(d[Head(segs)]) + SumSizes(d, Tail(segs))

\* Db.Size on directory d, sealed segments segs and active segment cur whose
\* handle is closed or not.
Size(d, segs, cur, closed) ==
  IF \E i \in 1..Len(segs) : segs[i] \notin DOMAIN d
    THEN [err |-> "stat", n |-> 0]
  ELSE IF closed
    THEN [err |-> "closed", n |-> 0]
  ELSE [err |-> "nil", n |-> SumSizes(d, segs) + Len(d[cur])]

\* A call of Size; what it returned is kept for the next call to compare with.
SizeCall ==
  /\ phase = "open"
  /\ CanRLock
  /\ \E res \in { Size(disk, segments, currentSegment, fileClosed) } :
        sized' = [valid |-> res.err = "nil", n |-> res.n, expect |-> res.n,
                  commits |-> commits]
  /\ UNCHANGED << disk, clock, phase, dbVars, fileClosed, compacting, mu, comp,
                  closer, reader, last, nputs, opens, origin, hist, params, codec, balancer,
                  faults, putErr, cut >>

(***************************************************************************)
(* Close                                                                   *)
(***************************************************************************)
CloseLock ==
  /\ phase = "open"
  /\ closer = "idle"
  /\ CanLock
  /\ mu' = "close"
  /\ closer' = "locked"
  /\ UNCHANGED << disk, clock, phase, dbVars, fileClosed, compacting, comp,
                  reader, last, nputs, opens, origin, hist, aux >>

\* A Close without the loop: it closes the file whatever the flag is.
CloseNoWait ==
  /\ closer = "locked"
  /\ fileClosed' = TRUE
  /\ mu' = "free"
  /\ closer' = "done"
  /\ UNCHANGED << disk, clock, phase, dbVars, compacting, comp, reader, last,
                  nputs, opens, origin, hist, aux >>

\* The loop test of Close: the compare-and-swap, then either
\* currentSegment.Close() and the deferred Unlock, or the way to Wait.
CloseCAS ==
  /\ closer = "locked"
  /\ IF CompareAndSwap(compacting)
       THEN /\ compacting' = TRUE
            /\ fileClosed' = TRUE
            /\ mu' = "free"
            /\ closer' = "done"
       ELSE /\ closer' = "wait"
            /\ UNCHANGED << compacting, fileClosed, mu >>
  /\ UNCHANGED << disk, clock, phase, dbVars, comp, reader, last, nputs, opens,
                  origin, hist, aux >>

\* compacted.Wait(): joins the notify list and unlocks mu
CloseWait ==
  /\ closer = "wait"
  /\ closer' = "parked"
  /\ mu' = "free"
  /\ waited' = TRUE
  /\ UNCHANGED << disk, clock, phase, dbVars, fileClosed, compacting, comp,
                  reader, last, nputs, opens, origin, commits, skipped, crashAt, aux >>

\* compacted.Wait() after the wake-up: locks mu again
CloseWake ==
  /\ closer = "woken"
  /\ CanLock
  /\ mu' = "close"
  /\ closer' = "locked"
  /\ UNCHANGED << disk, clock, phase, dbVars, fileClosed, compacting, comp,
                  reader, last, nputs, opens, origin, hist, aux >>

\* The caller whose Close has returned calls Close on the same engine again.
CloseAgain ==
  /\ phase = "open"
  /\ closer = "done"
  /\ closer' = "idle"
  /\ UNCHANGED << disk, clock, phase, dbVars, fileClosed, compacting, mu, comp,
                  reader, last, nputs, opens, origin, hist, aux >>

(***************************************************************************)
(* compact(ts), one goroutine per `go db.compact(ts)`                      *)
(***************************************************************************)
SetPc(t, pc) == [comp EXCEPT ![t].pc = pc]

\* The goroutines that hold the compacting flag: past the compare-and-swap
\* and not yet past compacting.Store(false).
HoldsFlag(t) ==
  comp[t].pc \in {"snapshot", "rename", "snapshot2", "swap", "remove", "unlock",
                  "cleanup", "store"}

\* os.Create(compPath): creates or truncates segment-tmp
Create(d, path) == [n \in DOMAIN d \cup {path} |-> IF n = path THEN << >> ELSE d[n]]

\* os.Rename(from, to)
Rename(d, from, to) ==
  [n \in (DOMAIN d \ {from}) \cup {to} |-> IF n = to THEN d[from] ELSE d[n]]

\* The compare-and-swap on entry; on success os.Create(compPath).  segment-tmp
\* is written by the holder of the flag alone.
CompactCAS(t) ==
  /\ comp[t].pc = "cas"
  /\ IF CompareAndSwap(compacting)
       THEN /\ compacting' = TRUE
            /\ disk' = Create(disk, TmpName)
            /\ comp' = SetPc(t, "snapshot")
            /\ UNCHANGED skipped
       ELSE /\ comp' = Exit(comp, t)
            /\ skipped' = skipped + 1
            /\ UNCHANGED << compacting, disk >>
  /\ UNCHANGED << clock, phase, dbVars, fileClosed, mu, closer, reader,
                  last, nputs, opens, origin, commits, waited, crashAt, aux >>

\* The keys of a scanned segment whose snapshot entry is this very position.
LiveKeys(segIndex, indexBefore) ==
  { k \in DOMAIN segIndex : k \in DOMAIN indexBefore /\ segIndex[k] = indexBefore[k] }

\* `for key, pos := range segIndex` visits the keys in any order.
Orders(S) ==
  { o \in [1..Cardinality(S) -> S] : \A a, b \in 1..Cardinality(S) : o[a] = o[b] => a = b }

\* The body of the inner loop for the keys of `order`: read, encode, append.
RECURSIVE copyRecords(_, _, _, _, _)
copyRecords(d, seg, segIndex, order, out) ==
  IF order = << >> THEN [ok |-> TRUE, out |-> out]
  ELSE With(getFromPath(d, seg, segIndex[Head(order)].offset), LAMBDA g :
         IF g.err # "nil" THEN [ok |-> FALSE, out |-> out]
         ELSE With(Encode(g.rec), LAMBDA e :
                IF ~e.ok THEN [ok |-> FALSE, out |-> out]
                ELSE With(out \o e.bytes, LAMBDA out1 :
                       copyRecords(d, seg, segIndex, Tail(order), out1))))

\* `for _, seg := range segsBefore { ... }`: the contents segment-tmp can have
\* when the loop ends (ok) or returns an error.
RECURSIVE rewrite(_, _, _, _)
rewrite(d, segs, indexBefore, out) ==
  IF segs = << >> THEN { [ok |-> TRUE, out |-> out] }
  ELSE With(getIndexFromPath(d, Head(segs)), LAMBDA si :
         IF ~si.ok THEN { [ok |-> FALSE, out |-> out] }
         ELSE UNION { IF ~c.ok THEN { c }
                      ELSE rewrite(d, Tail(segs), indexBefore, c.out)
                      : c \in { copyRecords(d, Head(segs), si.index, order, out)
                                : order \in Orders(LiveKeys(si.index, indexBefore)) } })

\* segsBefore, indexBefore := db.takeSnapshot(), then the rewrite loop.  The
\* loop reads sealed segments, which only the holder of the flag removes, and
\* writes segment-tmp, so it is one step with the snapshot.
CompactRewrite(t) ==
  /\ comp[t].pc = "snapshot"
  /\ CanRLock
  /\ \E res \in rewrite(disk, segments, index, << >>) :
       /\ disk' = IF TmpName \in DOMAIN disk
                    THEN WriteFile(disk, TmpName, res.out) ELSE disk
       /\ comp' = [comp EXCEPT
                     ![t].segsBefore = segments,
                     ![t].indexBefore = index,
                     ![t].pc = IF res.ok /\ TmpName \in DOMAIN disk
                               THEN "rename" ELSE "cleanup"]
  /\ UNCHANGED << clock, phase, dbVars, fileClosed, compacting, mu, closer,
                  reader, last, nputs, opens, origin, hist, aux >>

\* comp.Close(); os.Rename(compPath, newPath); compPath = newPath
CompactRename(t) ==
  /\ comp[t].pc = "rename"
  /\ IF TmpName \notin DOMAIN disk
       THEN /\ comp' = SetPc(t, "cleanup")
            /\ UNCHANGED disk
       ELSE /\ disk' = Rename(disk, TmpName, t)
            /\ comp' = [comp EXCEPT ![t].compPath = t, ![t].pc = "snapshot2"]
  /\ UNCHANGED << clock, phase, dbVars, fileClosed, compacting, mu, closer,
                  reader, last, nputs, opens, origin, hist, aux >>

\* segsAfter, indexAfter := db.takeSnapshot()
CompactSnapshot2(t) ==
  /\ comp[t].pc = "snapshot2"
  /\ CanRLock
  /\ comp' = [comp EXCEPT ![t].segsAfter = segments,
                          ![t].indexAfter = index,
                          ![t].pc = "swap"]
  /\ UNCHANGED << disk, clock, phase, dbVars, fileClosed, compacting, mu, closer,
                  reader, last, nputs, opens, origin, hist, aux >>

\* db.mu.Lock(); the new segment list; the index rebuild; on failure the
\* restore from segsAfter, indexAfter.
CompactSwap(t) ==
  /\ comp[t].pc = "swap"
  /\ CanLock
  /\ mu' = "compact"
  /\ \E newSegs \in { << comp[t].compPath >>
                          \o getNewSegments(segments, comp[t].segsBefore) } :
     \E rb \in { rebuildIndexLocked(disk, newSegs, currentSegment) } :
        IF rb.ok
          THEN /\ segments' = newSegs
               /\ index' = rb.index
               /\ commits' = commits + 1
               /\ comp' = [comp EXCEPT
                             ![t].i = 1,
                             ![t].finished = (comp[t].segsBefore = << >>),
                             ![t].pc = IF comp[t].segsBefore = << >>
                                       THEN "unlock" ELSE "remove"]
          ELSE /\ segments' = comp[t].segsAfter
               /\ index' = comp[t].indexAfter
               /\ comp' = SetPc(t, "unlock")
               /\ UNCHANGED commits
  /\ UNCHANGED << disk, clock, phase, currentSegment, currentOffset, fileClosed,
                  compacting, closer, reader, last, nputs, opens, origin, skipped,
                  waited, crashAt, aux >>

\* One iteration of `for _, segBefore := range segsBefore { os.Remove(...) }`;
\* after the last one, finished = true.
CompactRemove(t) ==
  /\ comp[t].pc = "remove"
  /\ disk' = Remove(disk, comp[t].segsBefore[comp[t].i])
  /\ comp' = IF comp[t].i = Len(comp[t].segsBefore)
               THEN [comp EXCEPT ![t].finished = TRUE, ![t].pc = "unlock"]
               ELSE [comp EXCEPT ![t].i = @ + 1]
  /\ UNCHANGED << clock, phase, dbVars, fileClosed, compacting, mu, closer,
                  reader, last, nputs, opens, origin, hist, aux >>

\* deferred db.mu.Unlock()
CompactUnlock(t) ==
  /\ comp[t].pc = "unlock"
  /\ mu' = "free"
  /\ comp' = SetPc(t, IF comp[t].finished THEN "store" ELSE "cleanup")
  /\ UNCHANGED << disk, clock, phase, dbVars, fileClosed, compacting, closer,
                  reader, last, nputs, opens, origin, hist, aux >>

\* A deferred cleanup that closes the file and leaves it in the directory.
CompactCleanupKeeps(t) ==
  /\ comp[t].pc = "cleanup"
  /\ comp' = SetPc(t, "store")
  /\ UNCHANGED << disk, clock, phase, dbVars, fileClosed, compacting, mu, closer,
                  reader, last, nputs, opens, origin, hist, aux >>

\* deferred: if !finished { comp.Close(); os.Remove(compPath) }
CompactCleanup(t) ==
  /\ comp[t].pc = "cleanup"
  /\ disk' = Remove(disk, comp[t].compPath)
  /\ comp' = SetPc(t, "store")
  /\ UNCHANGED << clock, phase, dbVars, fileClosed, compacting, mu, closer,
                  reader, last, nputs, opens, origin, hist, aux >>

\* deferred: db.compacting.Store(false)
CompactStore(t) ==
  /\ comp[t].pc = "store"
  /\ compacting' = FALSE
  /\ comp' = SetPc(t, "broadcast")
  /\ UNCHANGED << disk, clock, phase, dbVars, fileClosed, mu, closer, reader,
                  last, nputs, opens, origin, hist, aux >>

\* deferred: db.compacted.Broadcast(), which wakes the goroutines on the
\* notify list; then the goroutine ends
CompactBroadcast(t) ==
  /\ comp[t].pc = "broadcast"
  /\ closer' = IF closer = "parked" THEN "woken" ELSE closer
  /\ comp' = Exit(comp, t)
  /\ UNCHANGED << disk, clock, phase, dbVars, fileClosed, compacting, mu, reader,
                  last, nputs, opens, origin, hist, aux >>

(***************************************************************************)
(* I/O errors in compact                                                   *)
(***************************************************************************)
\* One of the I/O steps compact makes before it takes the lock returns an
\* error: os.Create; getIndexFromPath, getFromPath or comp.Write in the rewrite
\* loop, or comp.Close, with part of the output written; os.Rename.  After a
\* failed os.Create compact returns before its cleanup is deferred.
CompactFails(t) ==
  /\ faults < MaxFaults
  /\ faults' = faults + 1
  /\ \/ /\ comp[t].pc = "cas"
        /\ CompareAndSwap(compacting)
        /\ compacting' = TRUE
        /\ comp' = SetPc(t, "store")
        /\ UNCHANGED disk
     \/ /\ comp[t].pc = "snapshot"
        /\ CanRLock
        /\ TmpName \in DOMAIN disk
        /\ \E res \in rewrite(disk, segments, index, << >>) :
           \E n \in { 0, Len(res.out) } :
              disk' = WriteFile(disk, TmpName, SubSeq(res.out, 1, n))
        /\ comp' = [comp EXCEPT ![t].segsBefore = segments,
                                ![t].indexBefore = index,
                                ![t].pc = "cleanup"]
        /\ UNCHANGED compacting
     \/ /\ comp[t].pc = "rename"
        /\ comp' = SetPc(t, "cleanup")
        /\ UNCHANGED << disk, compacting >>
  /\ UNCHANGED << clock, phase, dbVars, fileClosed, mu, closer, reader, last,
                  nputs, opens, origin, hist, params, codec, balancer, putErr, sized, cut >>

CompactFault == \E t \in DOMAIN comp : CompactFails(t)

(***************************************************************************)
(* A segment file cut short while no engine runs                           *)
(***************************************************************************)
\* Where the last frame of file f starts, walking the frames from offset r by
\* their record_len fields.
RECURSIVE LastFrameStart(_, _)
LastFrameStart(f, r) ==
  With(r + Uint32(SubSeq(f, r + 1, r + 4)), LAMBDA next :
    IF next >= Len(f) THEN r ELSE LastFrameStart(f, next))

\* A segment-<digits> file loses its end: between 1 and record_len - 1 bytes
\* of its last frame remain.
Truncate ==
  /\ phase = "down"
  /\ ~cut
  /\ \E name \in { n \in DOMAIN disk : ParseInt(n).ok /\ disk[n] # << >> } :
     \E start \in { LastFrameStart(disk[name], 0) } :
     \E c \in (start + 1)..(Len(disk[name]) - 1) :
        disk' = [disk EXCEPT ![name] = SubSeq(@, 1, c)]
  /\ cut' = TRUE
  /\ UNCHANGED << clock, phase, dbVars, fileClosed, compacting, mu, comp, closer,
                  reader, last, nputs, opens, origin, hist, params, codec, balancer, faults,
                  putErr, sized >>

(***************************************************************************)
(* A new engine on the same directory                                      *)
(***************************************************************************)
\* open() on the directory as it is; goroutines of an earlier engine work on
\* that engine's fields and are no part of the new one.
OpenAgain(how) ==
  /\ opens < MaxOpens
  /\ \E o \in { open(disk, clock) } :
        /\ phase' = IF o.ok THEN "open" ELSE "failed"
        /\ disk' = o.w.disk
        /\ clock' = o.w.clock
        /\ segments' = o.w.segments
        /\ index' = o.w.index
        /\ currentSegment' = o.w.currentSegment
        /\ currentOffset' = o.w.currentOffset
  /\ fileClosed' = FALSE
  /\ compacting' = FALSE
  /\ mu' = "free"
  /\ comp' = [t \in {} |-> NewTask]
  /\ closer' = "idle"
  /\ reader' = IdleReader
  /\ opens' = opens + 1
  /\ origin' = how
  /\ commits' = 0
  /\ skipped' = 0
  /\ waited' = FALSE
  /\ putErr' = "none"
  /\ sized' = NoSize
  /\ UNCHANGED << last, nputs, crashAt, params, codec, balancer, faults, cut >>

\* Open after Close has returned.
Reopen ==
  /\ phase = "open"
  /\ closer = "done"
  /\ reader.pc = "idle"
  /\ OpenAgain("reopen")

\* The process stops at any point; only the directory survives.
Crash ==
  /\ phase = "open"
  /\ closer # "done"
  /\ opens < MaxOpens
  /\ phase' = "down"
  /\ segments' = << >>
  /\ index' = EmptyIndex
  /\ currentSegment' = NoFile
  /\ currentOffset' = 0
  /\ fileClosed' = FALSE
  /\ compacting' = FALSE
  /\ mu' = "free"
  /\ comp' = [t \in {} |-> NewTask]
  /\ closer' = "idle"
  /\ reader' = IdleReader
  /\ crashAt' = IF \E t \in DOMAIN comp : HoldsFlag(t) THEN "compaction" ELSE "other"
  /\ UNCHANGED << disk, clock, last, nputs, opens, origin, commits, skipped, waited, aux >>

\* Open after the process stopped.
Recover ==
  /\ phase = "down"
  /\ OpenAgain("recover")

(***************************************************************************)
(* The codec called on its own (record_test.go)                            *)
(***************************************************************************)
engineVars == << disk, clock, phase, dbVars, fileClosed, compacting, mu, comp,
                 closer, reader, last, nputs, opens, origin, hist, params,
                 faults, putErr, sized, cut >>

\* Keys and values of the records the codec is called with: empty, short,
\* with the bytes 0 and 255, and longer than the reader's buffer.
CodecKeys == { << >>, << 1 >>, << 1, 2 >> }

\* Records whose value variant agrees with their data type; the last two
\* values are the largest and the smallest int64 as their eight bytes.
TypedRecords ==
  { NewStringRecord(k, v)
      : k \in CodecKeys, v \in { << >>, << 1 >>, << 0, 255 >>, LongString } }
    \cup { NewInt64Record(k, n)
             : k \in CodecKeys, n \in { 0, 1, 7, 0 - 1, 0 - 7, 2147483647, 0 - 2147483647 } }
    \cup { [key |-> k, value |-> v, dataType |-> DataTypeInt64]
             : k \in CodecKeys,
               v \in { [kind |-> "int64", n |-> 0,
                        s |-> << 255, 255, 255, 255, 255, 255, 255, 127 >>],
                       [kind |-> "int64", n |-> 0,
                        s |-> << 0, 0, 0, 0, 0, 0, 0, 128 >>] } }

\* Records of every data type byte with a value of every variant (NoValue: a
\* value that is neither a string nor an int64).
AnyRecords ==
  { [key |-> k, value |-> v, dataType |-> dt]
      : k \in { << 1 >> }, v \in { StringValue(<< 1 >>), Int64Value(7), NoValue },
        dt \in 0..3 }

\* The byte strings Decode is called with: a header with any record_len,
\* data_type, key_len and val_len, followed by a body of any length.
RawInputs ==
  { PutUint32(rl) \o << dt >> \o PutUint32(kl) \o PutUint32(vl) \o body
      : rl \in 12..25, dt \in 0..3, kl \in 0..2, vl \in {0, 1, 7, 8, 9},
        body \in { [i \in 1..n |-> 1] : n \in {0, 1, 2, 7, 8, 9, 10, 11} } }
    \cup { [i \in 1..n |-> 1] : n \in 0..(recordHeaderSize - 1) }

\* The records of the streams DecodeFromReader is called on, and what follows
\* the last frame in the stream.
StreamRecords ==
  { NewStringRecord(<< >>, << >>), NewStringRecord(<< 1 >>, << 2 >>),
    NewInt64Record(<< 2 >>, 7), NewStringRecord(<< 1 >>, LongString) }

MaxFrames == 3

RECURSIVE EncodeAll(_)
EncodeAll(recs) ==
  IF recs = << >> THEN << >> ELSE Encode(Head(recs)).bytes \o EncodeAll(Tail(recs))

\* The inputs of the three kinds.
CodecInputs ==
  { [NoCodec EXCEPT !.pc = "record", !.rec = rec] : rec \in TypedRecords \cup AnyRecords }
    \cup { [NoCodec EXCEPT !.pc = "raw", !.input = b] : b \in RawInputs }
    \cup { [NoCodec EXCEPT !.pc = "stream", !.recs = recs,
                           !.f = EncodeAll(recs) \o tail]
             : recs \in UNION { [1..n -> StreamRecords] : n \in 1..MaxFrames },
               tail \in { << >>, << 9 >>, << 9, 9, 9, 9, 9 >> } }

\* r.Encode()
EncodeRecord ==
  /\ codec.pc = "record"
  /\ \E e \in { Encode(codec.rec) } :
        codec' = [codec EXCEPT !.enc = e, !.input = e.bytes,
                               !.pc = IF e.ok THEN "encoded" ELSE "refused"]
  /\ UNCHANGED << engineVars, balancer >>

\* r.Decode(input), on the frame Encode returned or on raw bytes
DecodeInput ==
  /\ codec.pc \in { "encoded", "raw" }
  /\ codec' = [codec EXCEPT
                 !.dec = Decode([len |-> Len(codec.input), data |-> codec.input]),
                 !.pc = IF codec.pc = "encoded" THEN "decoded" ELSE "rawDecoded"]
  /\ UNCHANGED << engineVars, balancer >>

\* Where frame i + 1 of the stream starts.
FrameStart(recs, i) == Len(EncodeAll(SubSeq(recs, 1, i)))

\* r.DecodeFromReader(in) with the reader at the start of a frame, or at the
\* end of a stream that ends with its last frame.
ReadFrame ==
  /\ codec.pc = "stream"
  /\ codec.res.err \in { "none", "nil" }
  /\ codec.r = FrameStart(codec.recs, codec.i)
  /\ \/ codec.i < Len(codec.recs)
     \/ codec.i = Len(codec.recs) /\ codec.r = Len(codec.f)
  /\ \E x \in { DecodeFromReader(codec.f, codec.r, codec.w) } :
        codec' = [codec EXCEPT !.res = x, !.r = @ + x.n, !.w = x.w, !.i = @ + 1]
  /\ UNCHANGED << engineVars, balancer >>

\* getIndexFromPath(path) on a file that holds the stream
ScanSegment ==
  /\ codec.pc = "stream"
  /\ codec.i = 0
  /\ codec' = [codec EXCEPT !.scan = getIndexFromPath([n \in { 1 } |-> codec.f], 1),
                            !.pc = "scanned"]
  /\ UNCHANGED << engineVars, balancer >>

(***************************************************************************)
(* The load balancer (balancer.go)                                         *)
(***************************************************************************)
serversPool == << "server1:8080", "server2:8080", "server3:8080" >>

\* Width of int on the platform the services are built for.
IntSize == 64

\* net/http status codes
StatusOK == 200
StatusServiceUnavailable == 503

\* Number of requests the balancer serves.
MaxRequests == 3

\* a XOR b on the n low bits
RECURSIVE XorBits(_, _, _)
XorBits(a, b, n) ==
  IF n = 0 THEN 0
  ELSE (((a % 2) + (b % 2)) % 2) + 2 * XorBits(a \div 2, b \div 2, n - 1)

\* hash/fnv New32a, Write(s) and Sum32: for every byte of s,
\* hash = (hash XOR byte) * 16777619 mod 2^32. The 32 bits of the hash are
\* kept as two halves of 16 bits, hi and lo; 16777619 = 2^24 + 403.
RECURSIVE Write32a(_, _, _)
Write32a(hi, lo, s) ==
  IF s = << >> THEN [hi |-> hi, lo |-> lo]
  ELSE With((lo \div 256) * 256 + XorBits(lo % 256, Head(s), 8),
            LAMBDA x : Write32a((hi * 403 + x * 256 + ((x * 403) \div 65536)) % 65536,
                                (x * 403) % 65536, Tail(s)))

\* The offset basis 2166136261 = 33052 * 2^16 + 40389.
Sum32a(s) == Write32a(33052, 40389, s)

\* net.SplitHostPort on an address without brackets: the host before the one
\* colon (byte 58), an error without a colon or with more than one.
SplitHostPort(hostport) ==
  With({ i \in 1..Len(hostport) : hostport[i] = 58 },
       LAMBDA colons :
         IF Cardinality(colons) = 1
           THEN [host |-> SubSeq(hostport, 1, (CHOOSE i \in colons : TRUE) - 1), err |-> "nil"]
           ELSE [host |-> << >>, err |-> "address"])

\* chooseHealthy returning a server of the whole pool, healthy or not
chooseHealthyAnyServer(healthStatus, RemoteAddr) ==
  [server |-> serversPool[(Sum32a(RemoteAddr).lo % Len(serversPool)) + 1], err |-> "nil"]

\* int(hashValue) % len(healthyServers) as an index from 1: the hash itself
\* when int has 64 bits; with 32 bits a hash of 2^31 or more becomes negative,
\* the remainder with it, and the index expression panics.
hashIndex(h, n) ==
  IF IntSize = 32 /\ h.hi >= 32768 THEN 0
  ELSE (((h.hi % n) * (65536 % n) + (h.lo % n)) % n) + 1

\* chooseHealthy(r): the healthy servers in the order of serversPool, an error
\* when there is none, else the one the hash of the client's address selects.
chooseHealthy(healthStatus, RemoteAddr) ==
  With(SelectSeq(serversPool, LAMBDA s : s \in DOMAIN healthStatus /\ healthStatus[s]),
       LAMBDA healthyServers :
         IF Len(healthyServers) = 0
           THEN [server |-> "", err |-> "no healthy servers available"]
           ELSE With(SplitHostPort(RemoteAddr),
                     LAMBDA split :
                       With(hashIndex(Sum32a(IF split.err # "nil" THEN RemoteAddr ELSE split.host),
                                      Len(healthyServers)),
                            LAMBDA idx :
                              IF idx = 0 THEN [server |-> "", err |-> "panic"]
                              ELSE [server |-> healthyServers[idx], err |-> "nil"])))

\* Addresses of clients: 192.168.1.10 from two ports, 192.168.1.11, 10.0.0.7
\* from a port and as an address without a port.
RemoteAddrs ==
  { << 49, 57, 50, 46, 49, 54, 56, 46, 49, 46, 49, 48, 58, 49, 50, 51, 52, 53 >>,
    << 49, 57, 50, 46, 49, 54, 56, 46, 49, 46, 49, 48, 58, 56, 48 >>,
    << 49, 57, 50, 46, 49, 54, 56, 46, 49, 46, 49, 49, 58, 49, 50, 51, 52, 53 >>,
    << 49, 48, 46, 48, 46, 48, 46, 55, 58, 49 >>,
    << 49, 48, 46, 48, 46, 48, 46, 55 >> }

\* One tick of a health goroutine: healthStatus[server] = isHealthy
HealthTick ==
  \E i \in 1..Len(serversPool), isHealthy \in BOOLEAN :
    /\ balancer' = [balancer EXCEPT
                      !.healthStatus = [s \in DOMAIN @ \cup { serversPool[i] } |->
                                          IF s = serversPool[i] THEN isHealthy ELSE @[s]]]
    /\ UNCHANGED << engineVars, codec >>

\* forward(dst, rw, r): the status codes it passes to rw.WriteHeader.
\* http.DefaultClient.Do returns an error for a request without a host and
\* when the backend does not answer (up is false); else the backend's status
\* is copied.
forward(dst, up) ==
  IF dst = "" \/ ~up THEN << StatusServiceUnavailable >> ELSE << StatusOK >>

\* The frontend's handler for one request: chooseHealthy(r); http.Error with
\* 503 when it returned an error; forward(selectedServer, rw, r).  dst lists
\* the destinations forward was called with, status the codes written to the
\* response, in order.  A panic in chooseHealthy ends the handler.
Request ==
  /\ balancer.n < MaxRequests
  /\ \E RemoteAddr \in RemoteAddrs, up \in BOOLEAN :
       \E res \in { chooseHealthy(balancer.healthStatus, RemoteAddr) } :
         balancer' = [balancer EXCEPT
                        !.n = @ + 1,
                        !.addr = RemoteAddr,
                        !.at = balancer.healthStatus,
                        !.res = res,
                        !.dst = IF res.err = "panic" THEN << >> ELSE << res.server >>,
                        !.status = IF res.err = "panic" THEN << >>
                                   ELSE (IF res.err # "nil"
                                           THEN << StatusServiceUnavailable >>
                                           ELSE << >>) \o forward(res.server, up)]
  /\ UNCHANGED << engineVars, codec >>

\* The balancer with its health goroutines and its clients.
SpecBalancer == Init /\ [][HealthTick \/ Request]_vars

Compact ==
  \E t \in DOMAIN comp :
    \/ CompactCAS(t)
    \/ CompactRewrite(t)
    \/ CompactRename(t)
    \/ CompactSnapshot2(t)
    \/ CompactSwap(t)
    \/ CompactRemove(t)
    \/ CompactUnlock(t)
    \/ CompactCleanup(t)
    \/ CompactStore(t)
    \/ CompactBroadcast(t)

Close == CloseLock \/ CloseCAS \/ CloseWait \/ CloseWake

\* Clients that put and get, and the compaction goroutines.
Next ==
  \/ Put
  \/ PutInt64
  \/ GetBegin
  \/ GetEnd
  \/ Compact

Spec == Init /\ [][Next]_vars

\* An idle engine, and the codec about to be called on one of its inputs.
InitCodec == InitEngine(defaultParams) /\ codec \in CodecInputs /\ balancer = NoBalancer

\* The codec called on every input of CodecInputs.
SpecCodec == InitCodec /\ [][EncodeRecord \/ DecodeInput \/ ReadFrame \/ ScanSegment]_vars

\* An engine whose every put rotates: max_segment_size is smaller than a frame.
rotatingParams ==
  [maxSegmentSize |-> 14, compactionThreshold |-> 2, puts |-> MaxPuts,
   coarseClock |-> FALSE,
   strings |-> { << << 1 >>, << 1 >> >> },
   ints |-> {},
   keys |-> { << 1 >> }]

\* Scenario S3 (TestCompaction): max_segment_size is 12 + len("k") + len("v"),
\* one less than the frame, compaction_threshold is 3, and ("k", "v") is put
\* S3Puts times.
S3Puts == 4

s3Params ==
  [maxSegmentSize |-> 14, compactionThreshold |-> 3, puts |-> MaxPuts,
   coarseClock |-> FALSE,
   strings |-> { << << 1 >>, << 1 >> >> },
   ints |-> {},
   keys |-> { << 1 >> }]

SpecS3 == InitWith(s3Params) /\ [][Put \/ GetBegin \/ GetEnd \/ Compact]_vars

\* Short values, and a compaction as soon as one segment is sealed.
eagerParams ==
  [maxSegmentSize |-> 37, compactionThreshold |-> 1, puts |-> MaxPuts,
   coarseClock |-> FALSE,
   strings |-> { << 1 >> } \X { << 1 >>, << 2 >> },
   ints |-> { << << 2 >>, 7 >> },
   keys |-> { << 1 >>, << 2 >> }]

\* Clients that put and call Size, and the compaction goroutines.
SpecSize == InitWith(eagerParams) /\ [][Put \/ PutInt64 \/ SizeCall \/ Compact]_vars

\* A key of two bytes with an empty value, put behind a frame of 18 bytes:
\* the second frame ends one byte behind the reader's buffer.
twoByteKeyParams ==
  [maxSegmentSize |-> 37, compactionThreshold |-> 2, puts |-> MaxPuts,
   coarseClock |-> FALSE,
   strings |-> { << << 1 >>, << 1, 1, 1, 1 >> >>, << << 2, 2 >>, << >> >> },
   ints |-> {},
   keys |-> { << 1 >>, << 2, 2 >>, << 2, 0 >> }]

\* Clients that put, get and call Size, the compaction goroutines, Close and a
\* later Open.
SpecLookup == InitWith(twoByteKeyParams) /\ [][Put \/ GetBegin \/ GetEnd \/ SizeCall \/ Compact \/ Close \/ Reopen]_vars

\* One put more than the other scenarios make: a third rotation can follow a
\* compaction that failed.
longRunParams ==
  [maxSegmentSize |-> 37, compactionThreshold |-> 2, puts |-> MaxPuts + 1,
   coarseClock |-> FALSE,
   strings |-> { << << 1 >>, << 1 >> >> },
   ints |-> { << << 2 >>, 7 >> },
   keys |-> { << 1 >>, << 2 >> }]

SpecLongRun == InitWith(longRunParams) /\ [][Next]_vars

\* TestSegmentCreation scaled down: FillPuts records of equal size under
\* distinct keys, of which all but the last fit into one segment.
FillPuts == 5

fillParams ==
  [maxSegmentSize |-> 60, compactionThreshold |-> 3, puts |-> FillPuts,
   coarseClock |-> FALSE,
   strings |-> { << << i >>, << 1 >> >> : i \in 1..FillPuts },
   ints |-> {},
   keys |-> { << i >> : i \in 1..FillPuts }]

\* The engine of the default scenario, or the one of TestSegmentCreation.
SpecRotation == (InitWith(defaultParams) \/ InitWith(fillParams)) /\ [][Next]_vars

\* Short values only: every frame fits the reader's buffer.
shortParams ==
  [maxSegmentSize |-> 37, compactionThreshold |-> 2, puts |-> MaxPuts,
   coarseClock |-> FALSE,
   strings |-> { << 1 >> } \X { << 1 >>, << 2 >> },
   ints |-> { << << 2 >>, 7 >> },
   keys |-> { << 1 >>, << 2 >> }]

\* Clients whose puts can meet an I/O error, and the compaction goroutines.
SpecPutFault == InitWith(shortParams) /\ [][Put \/ PutInt64 \/ PutFault \/ PutClosed \/ Compact]_vars

\* Clients that put, the compaction goroutines, a stop of the process, the
\* loss of the end of a segment file, and the Open that follows.
SpecTruncate == InitWith(shortParams) /\ [][Put \/ PutInt64 \/ Compact \/ Crash \/ Truncate \/ Recover]_vars

\* Clients that put, compaction goroutines whose I/O can fail, a stop of the
\* process at any point and the Open that follows.
SpecCompactFault == InitWith(rotatingParams) /\ [][Put \/ Compact \/ CompactFault \/ Crash \/ Recover]_vars

\* Clients that put, the compaction goroutines, Close and a later Open.
SpecClose == Init /\ [][Put \/ PutInt64 \/ Compact \/ Close \/ Reopen]_vars

\* Clients that put, the compaction goroutines, a stop of the process at any
\* point and the Open that follows.
SpecCrash == Init /\ [][Put \/ PutInt64 \/ Compact \/ Crash \/ Recover]_vars

\* Clients that put, the compaction goroutines and Close.
SpecShutdown == Init /\ [][Put \/ PutInt64 \/ Compact \/ Close]_vars

\* Clients whose every put rotates and the compaction goroutines, on a clock
\* whose readings strictly increase or on one that returns the same value to
\* the two readings made within one put; no I/O error.
SpecCoarseClock ==
  /\ InitWith(rotatingParams) \/ InitWith([rotatingParams EXCEPT !.coarseClock = TRUE])
  /\ [][Put \/ Compact]_vars

\* Clients whose every put rotates and the compaction goroutines, which the
\* scheduler runs when they can take a step; no I/O error.
FairCompaction == InitWith(rotatingParams) /\ [][Put \/ Compact]_vars /\ WF_vars(Compact)

\* The same under fair scheduling: the goroutine in Close and the compaction
\* goroutines take their next step when they can.
FairShutdown == SpecShutdown /\ WF_vars(Close) /\ WF_vars(Compact)

\* Clients that put, the compaction goroutines and a caller that calls Close
\* time and again, under the same fair scheduling.
FairReclose ==
  /\ Init
  /\ [][Put \/ PutInt64 \/ Compact \/ Close \/ CloseAgain]_vars
  /\ WF_vars(Close)
  /\ WF_vars(Compact)

\* Clients that put, get and ask for the size, the compaction goroutines and
\* a caller of Close; every goroutine inside a call takes its next step when
\* it can, and there is no I/O error.
FairClients ==
  /\ Init
  /\ [][Put \/ PutInt64 \/ GetBegin \/ GetEnd \/ SizeCall \/ Compact \/ Close]_vars
  /\ WF_vars(GetEnd)
  /\ WF_vars(Compact)
  /\ WF_vars(Close)

(***************************************************************************)
(* Properties                                                              *)
(***************************************************************************)

\* Db.get on index idx and directory d returns value v without an error.
GetReturns(idx, d, k, v) ==
  \E g \in { get(idx, d, k) } : g.err = "nil" /\ g.rec.value = v

\* A Get can run now: the engine is open and no writer holds mu.
Readable == phase = "open" /\ CanRLock

Compacting == \E t \in DOMAIN comp : HoldsFlag(t)

\* C1 (last-write-wins): on an engine no compaction of which has committed,
\* after any sequence of puts and rotations, Get(k) returns for every key that
\* was put the value of its most recent put.
C1_LastWriteWins ==
  (Readable /\ origin = "init" /\ commits = 0) =>
    \A k \in Keys : last[k] # NoValue => GetReturns(index, disk, k, last[k])

\* C2 (compaction preservation): once compactions have committed, Get(k) still
\* returns for every key that was put the value of its most recent put, the
\* puts made between a compaction's snapshot and its swap included.
C2_CompactionPreserves ==
  (Readable /\ origin = "init" /\ commits > 0) =>
    \A k \in Keys : last[k] # NoValue => GetReturns(index, disk, k, last[k])

\* C3: a Get that holds the read lock while a compaction holds the compacting
\* flag, for a key that was put, meets neither ErrNotFound nor an I/O error:
\* the file and the offset of its index entry exist.
C3_GetDuringCompaction ==
  (reader.pc = "locked" /\ Compacting /\ last[reader.key] # NoValue) =>
    /\ reader.found
    /\ reader.pos.segment \in DOMAIN disk
    /\ reader.pos.offset < Len(disk[reader.pos.segment])
    /\ ReaderResult.err \notin {"ErrNotFound", "open", "EOF"}

\* C4 (visibility): a Get that starts after a put of its key returned reads
\* the value of that put, or of a later one; no put commits while the Get holds
\* the read lock, so that is the value of the last put.
C4_Visibility ==
  (reader.pc = "locked" /\ last[reader.key] # NoValue) =>
    ReaderResult.rec.value = last[reader.key]

\* C5 (persistence): an Open that follows a Close succeeds, and Get(k) then
\* returns for every key that was put the last value put before the Close.
C5_Persistence ==
  [][(opens' = opens + 1 /\ origin' = "reopen") =>
       /\ phase' = "open"
       /\ \A k \in Keys : last[k] # NoValue => GetReturns(index', disk', k, last[k])]_vars

\* C6 (crash recovery): when the process stopped while a compaction held the
\* flag, the next Open succeeds and Get(k) returns for every key the value of
\* its last successful put.
C6_CrashRecovery ==
  [][(opens' = opens + 1 /\ origin' = "recover" /\ crashAt = "compaction") =>
       /\ phase' = "open"
       /\ \A k \in Keys : last[k] # NoValue => GetReturns(index', disk', k, last[k])]_vars

\* C7: at most one goroutine is past the compare-and-swap of compact, and a
\* compact call that finds the flag set returns without touching the
\* directory, segments or index.
C7_OneCompaction ==
  /\ [](Cardinality({ t \in DOMAIN comp : HoldsFlag(t) }) <= 1)
  /\ [][\A t \in DOMAIN comp :
          (comp[t].pc = "cas" /\ compacting /\ t \notin DOMAIN comp') =>
            UNCHANGED << disk, segments, index >>]_vars

\* A compact call returned at the compare-and-swap while another one ran.
C7_Witness == skipped > 0 /\ Compacting

\* C8: Close closes the active segment's file only when no compaction holds
\* the compacting flag.
C8_CloseBarrier ==
  [][(~fileClosed /\ fileClosed') => ~Compacting]_vars

\* Close found a compaction running, waited, and has closed the file.
C8_Witness == closer = "done" /\ waited /\ fileClosed

\* C9: a Close that is called while a compaction holds the compacting flag
\* returns, whatever the order of its flag test and its Wait with the
\* compaction's Unlock, Store(false) and Broadcast.
C9_CloseTerminates == (closer = "locked" /\ Compacting) ~> (closer = "done")

\* C10: when the index rebuild of the swap fails, segments and index are left
\* as they were when the swap took the lock, and no file is removed.
C10_RestoreOnFailure ==
  [][\A t \in DOMAIN comp :
       (comp[t].pc = "swap" /\ t \in DOMAIN comp' /\ comp'[t].pc = "unlock"
          /\ ~comp'[t].finished) =>
         (segments' = segments /\ index' = index /\ disk' = disk)]_vars

\* C11: a compaction that meets an I/O error before its swap changes neither
\* segments, index, the active segment nor its offset, removes no file of its
\* snapshot, and segment-tmp is gone when it clears the compacting flag.
C11_AbortLeavesState ==
  [][\A t \in DOMAIN comp :
       /\ (/\ phase' = "open"
           /\ comp[t].compPath = TmpName
           /\ comp[t].pc \in {"cas", "snapshot", "rename", "cleanup"}
           /\ (t \notin DOMAIN comp' \/ comp'[t] # comp[t]))
            => /\ UNCHANGED dbVars
               /\ \A i \in 1..Len(comp[t].segsBefore) :
                     comp[t].segsBefore[i] \in DOMAIN disk
                       => comp[t].segsBefore[i] \in DOMAIN disk'
       /\ (/\ comp[t].compPath = TmpName
           /\ comp[t].pc = "store"
           /\ t \in DOMAIN comp'
           /\ comp'[t].pc = "broadcast")
            => TmpName \notin DOMAIN disk']_vars
\* C12: after a put has failed with an I/O error, a put that meets no I/O
\* fault succeeds, Get of its key returns its value and Get of every other
\* key returns the value of its last successful put.
C12_UsableAfterFailure ==
  [][(faults > 0 /\ faults' = faults /\ nputs' = nputs + 1) =>
       /\ putErr' = "nil"
       /\ \A k \in Keys :
            last'[k] # NoValue => GetReturns(index', disk', k, last'[k])]_vars

\* C13: a put that returns an error leaves the index as it was; a put that
\* returns nil has appended the frame of its record to the active segment,
\* and the index entry of its key is in the active segment.
C13_IndexAfterDurableWrite ==
  [][(nputs' = nputs + 1) =>
       IF putErr' # "nil" THEN index' = index
       ELSE \E rec \in PutCalls :
              \E data \in { Encode(rec).bytes } :
                 /\ last'[rec.key] = rec.value
                 /\ Len(disk'[currentSegment']) >= Len(data)
                 /\ SubSeq(disk'[currentSegment'],
                           Len(disk'[currentSegment']) - Len(data) + 1,
                           Len(disk'[currentSegment'])) = data
                 /\ rec.key \in DOMAIN index'
                 /\ index'[rec.key] =
                      recordPosition(currentSegment', currentOffset' - Len(data))]_vars

\* A put has returned an I/O error, and a later put has returned nil.
C13_Witness == faults > 0 /\ putErr = "nil"
\* The directory once the files of `segs` are removed.
RECURSIVE RemoveAll(_, _)
RemoveAll(d, segs) ==
  IF segs = << >> THEN d ELSE RemoveAll(Remove(d, Head(segs)), Tail(segs))

\* C14: when a compaction commits its swap, the timestamp of the replacement
\* is smaller than that of every sealed segment that survives and of the
\* active segment, so the directory enumerated by timestamp is the new
\* segment list followed by the active segment, and every key that was put
\* reads through the rebuilt index as it read before the swap.
C14_ReplacementIsOldest ==
  [][\A t \in DOMAIN comp :
       (comp[t].pc = "swap" /\ commits' = commits + 1) =>
          /\ Head(segments') = t
          /\ \A i \in 2..Len(segments') : t < segments'[i]
          /\ t < currentSegment
          /\ loadSegments(RemoveAll(disk, comp[t].segsBefore))
               = Append(segments', currentSegment)
          /\ \A k \in Keys :
               last[k] # NoValue => get(index', disk, k) = get(index, disk, k)]_vars

\* Scenario S3 at rest: the puts are made, no compaction runs or waits to run.
S3Quiescent ==
  /\ params = s3Params
  /\ nputs = S3Puts
  /\ DOMAIN comp = {}
  /\ reader.pc = "idle"

\* The files of the directory named segment-<digits>.
SegmentFiles == { name \in DOMAIN disk : ParseInt(name).ok }

C16_SizeGrowsByFrames ==
  [][(sized' # sized /\ nputs' = nputs) =>
       /\ sized'.valid
       /\ sized'.n = SumSizes(disk, segments) + Len(disk[currentSegment])
       /\ (sized.valid /\ sized.commits = commits) => sized'.n = sized.expect]_vars
\* C17 (type fidelity): for a key last put with PutInt64, GetInt64 returns the
\* number and Get fails on the type; for a key last put with Put, Get returns
\* the string and GetInt64 fails on the type.
C17_TypeFidelity ==
  Readable =>
    \A k \in Keys :
      /\ last[k].kind = "int64" =>
           /\ GetInt64(index, disk, k) = [err |-> "nil", value |-> last[k]]
           /\ Get(index, disk, k).err = "type"
      /\ last[k].kind = "string" =>
           /\ Get(index, disk, k) = [err |-> "nil", value |-> last[k]]
           /\ GetInt64(index, disk, k).err = "type"

\* C18 (corruption detection): when a segment file has been cut inside its
\* last frame, the next Open fails.
C18_TruncationDetected ==
  [][(cut /\ opens' = opens + 1) => phase' = "failed"]_vars

\* The values the clients put for key k.
PutValues(k) == { rec.value : rec \in { c \in PutCalls : c.key = k } }

\* C19: with clients that put distinct keys and clients that get, while
\* rotations and compactions go on, a Get that finds its key returns without
\* an error a value that was put for that key, and once all puts have
\* returned every key that was put reads with its last value.
C19_ConcurrentGets ==
  /\ (reader.pc = "locked" /\ reader.found) =>
        /\ ReaderResult.err = "nil"
        /\ ReaderResult.rec.value \in PutValues(reader.key)
  /\ (nputs = PutLimit /\ Readable) =>
        \A k \in Keys : last[k] # NoValue => GetReturns(index, disk, k, last[k])

\* C20: a Get of a key that was never put returns ErrNotFound, on a fresh or
\* reopened engine, whatever the compactions do, and neither Get nor Size
\* changes segments, index, the active segment, its offset or a file.
C20_NotFoundAndReadOnly ==
  /\ []((reader.pc = "locked" /\ last[reader.key] = NoValue) => ~reader.found)
  /\ [][((reader' # reader \/ sized' # sized) /\ nputs' = nputs /\ opens' = opens)
          => UNCHANGED << disk, dbVars >>]_vars
\* The puts of TestSegmentCreation have returned.
FillDone == params = fillParams /\ nputs = FillPuts

\* C21 (rotation rule): a put rotates exactly when the active offset plus the
\* frame length exceeds max_segment_size, and once; the rotation appends the
\* old active segment to segments and installs a new file with another name,
\* at whose offset 0 the record is written; without a rotation the record is
\* appended to the active segment.  FillPuts equal records of which all but
\* the last fit leave one sealed and one active segment file.
C21_RotationRule ==
  /\ [][(nputs' = nputs + 1) =>
         \E rec \in PutCalls :
         \E data \in { Encode(rec).bytes } :
            /\ last'[rec.key] = rec.value
            /\ IF currentOffset + Len(data) > maxSegmentSize
                 THEN /\ segments' = Append(segments, currentSegment)
                      /\ currentSegment' # currentSegment
                      /\ currentSegment' \notin DOMAIN disk
                      /\ disk'[currentSegment] = disk[currentSegment]
                      /\ disk'[currentSegment'] = data
                      /\ index'[rec.key] = recordPosition(currentSegment', 0)
                      /\ currentOffset' = Len(data)
                 ELSE /\ segments' = segments
                      /\ currentSegment' = currentSegment
                      /\ disk'[currentSegment] = disk[currentSegment] \o data
                      /\ index'[rec.key] = recordPosition(currentSegment, currentOffset)
                      /\ currentOffset' = currentOffset + Len(data)]_vars
  /\ [](FillDone =>
         /\ Len(segments) = 1
         /\ segments[1] # currentSegment
         /\ SegmentFiles = { segments[1], currentSegment })

\* The last put of TestSegmentCreation has rotated.
C21_Witness == FillDone /\ Len(segments) = 1 /\ currentOffset < maxSegmentSize
\* The header fields of the bytes Decode was called with.
InputHeader == recordHeader([len |-> Len(codec.input), data |-> codec.input])

\* C22 (codec round-trip): for a record whose value variant agrees with its
\* data type, Encode succeeds, the frame's record_len is 13 + key_len +
\* val_len and the length of the frame, and Decode of the frame succeeds and
\* yields the same key, value and data type.
C22_RoundTrip ==
  /\ (codec.pc \in { "encoded", "refused", "decoded" } /\ codec.rec \in TypedRecords) =>
        /\ codec.enc.ok
        /\ InputHeader.RecordLen = Len(codec.input)
        /\ InputHeader.RecordLen = recordHeaderSize + InputHeader.KeyLen + InputHeader.ValLen
        /\ InputHeader.KeyLen = Len(codec.rec.key)
        /\ InputHeader.DataType = codec.rec.dataType
  /\ (codec.pc = "decoded" /\ codec.rec \in TypedRecords) =>
        /\ codec.dec.ok
        /\ codec.dec.rec = codec.rec

\* A record with an int64 outside 32 bits has made the round trip.
C22_Witness == codec.pc = "decoded" /\ codec.rec.value.s = << 0, 0, 0, 0, 0, 0, 0, 128 >> /\ codec.dec.ok

\* C23 (codec validation): Encode fails when the value variant does not agree
\* with the data type or the data type is neither 1 nor 2; Decode fails when
\* the input is shorter than the header, when record_len is not 13 + key_len +
\* val_len, when the data type is unknown, and when the data type is Int64 and
\* val_len is not 8.
C23_Validation ==
  /\ (codec.pc \in { "encoded", "refused" } /\
        \/ codec.rec.dataType \notin { DataTypeString, DataTypeInt64 }
        \/ codec.rec.dataType = DataTypeString /\ codec.rec.value.kind # "string"
        \/ codec.rec.dataType = DataTypeInt64 /\ codec.rec.value.kind # "int64")
       => codec.pc = "refused"
  /\ (codec.pc = "rawDecoded" /\
        \/ Len(codec.input) < recordHeaderSize
        \/ InputHeader.RecordLen # recordHeaderSize + InputHeader.KeyLen + InputHeader.ValLen
        \/ InputHeader.DataType \notin { DataTypeString, DataTypeInt64 }
        \/ InputHeader.DataType = DataTypeInt64 /\ InputHeader.ValLen # 8)
       => ~codec.dec.ok

\* Decode has refused an Int64 frame that is sound but for its val_len.
C23_Witness ==
  /\ codec.pc = "rawDecoded"
  /\ Len(codec.input) >= recordHeaderSize
  /\ InputHeader.DataType = DataTypeInt64
  /\ InputHeader.ValLen # 8
  /\ InputHeader.RecordLen = recordHeaderSize + InputHeader.KeyLen + InputHeader.ValLen
  /\ Len(codec.input) = InputHeader.RecordLen
  /\ ~codec.dec.ok

\* C24: DecodeFromReader, called at the start of a frame of the stream,
\* returns the record that was encoded and the frame's length as the count,
\* and leaves the reader at the first byte behind the frame; at the end of
\* the stream it returns io.EOF and 0.
C24_ReadsOneFrame ==
  [][(codec.pc = "stream" /\ codec'.i = codec.i + 1) =>
       IF codec.i < Len(codec.recs)
         THEN /\ codec'.res.err = "nil"
              /\ codec'.res.rec = codec.recs[codec.i + 1]
              /\ codec'.res.n = Len(Encode(codec.recs[codec.i + 1]).bytes)
              /\ codec'.r = FrameStart(codec.recs, codec.i + 1)
         ELSE /\ codec'.res.err = "EOF"
              /\ codec'.res.n = 0]_vars


\* C25 (load balancer selection): chooseHealthy returns only a server of
\* serversPool whose healthStatus entry is true; it returns an error exactly
\* when no server of the pool is marked healthy, and a server without an entry
\* counts as unhealthy; with the same health map and the same client address
\* a later call returns the same server.
C25_Selection ==
  /\ [](balancer.n > 0 =>
          \E healthy \in { { serversPool[i] : i \in { j \in 1..Len(serversPool) :
                              /\ serversPool[j] \in DOMAIN balancer.at
                              /\ balancer.at[serversPool[j]] } } } :
             /\ (balancer.res.err # "nil") = (healthy = {})
             /\ balancer.res.err = "nil" => balancer.res.server \in healthy)
  /\ [][(/\ balancer'.n = balancer.n + 1
         /\ balancer.n > 0
         /\ balancer'.at = balancer.at
         /\ \E old \in { SplitHostPort(balancer.addr) }, new \in { SplitHostPort(balancer'.addr) } :
               (IF old.err = "nil" THEN old.host ELSE balancer.addr)
                 = (IF new.err = "nil" THEN new.host ELSE balancer'.addr))
        => balancer'.res = balancer.res]_vars

\* Two requests of one client from two ports, while server2 has no entry and
\* server1 is unhealthy, went to server3.
C25_Witness ==
  /\ balancer.n = 2
  /\ DOMAIN balancer.at = { "server1:8080", "server3:8080" }
  /\ ~balancer.at["server1:8080"]
  /\ balancer.res = [server |-> "server3:8080", err |-> "nil"]
  /\ Len(balancer.addr) = 15


\* C26 (swap result): when a compaction commits, the new sealed list is the
\* replacement followed by the sealed segments of that moment that are not in
\* segsBefore, in the order they had; the active segment is the same, and no
\* segment of segsBefore is left in the list.
C26_SwapResult ==
  [][(commits' = commits + 1) =>
       \E t \in DOMAIN comp :
          /\ comp[t].pc = "swap"
          /\ comp'[t].pc \in { "remove", "unlock" }
          /\ segments' = << comp[t].compPath >>
                           \o SelectSeq(segments, LAMBDA s :
                                \A i \in 1..Len(comp[t].segsBefore) : comp[t].segsBefore[i] # s)
          /\ currentSegment' = currentSegment
          /\ currentOffset' = currentOffset
          /\ \A i \in 1..Len(comp[t].segsBefore), j \in 1..Len(segments') :
                segments'[j] # comp[t].segsBefore[i]]_vars

\* A compaction has committed while two segments sealed after its snapshot
\* were in the list: they follow the replacement.
C26_Witness ==
  \E t \in DOMAIN comp :
     /\ comp[t].pc = "remove"
     /\ mu = "compact"
     /\ Len(segments) = 3
     /\ segments[1] = comp[t].compPath
     /\ Len(comp[t].segsBefore) >= 2


\* C27 (rewrite content): the file a compaction has written when its rewrite
\* loop ends holds exactly one frame for every key whose entry in indexBefore
\* points into a segment of segsBefore, the frame of the key's value and type
\* at the snapshot, and no frame for a key whose entry points to the active
\* segment or that has no entry.
C27_RewriteContent ==
  [][\A t \in DOMAIN comp :
       (t \in DOMAIN comp' /\ comp[t].pc = "snapshot" /\ comp'[t].pc = "rename") =>
          \E live \in { { k \in DOMAIN index :
                            \E i \in 1..Len(segments) : index[k].segment = segments[i] } } :
          \E order \in Orders(live) :
             disk'[TmpName] =
               EncodeAll([i \in 1..Cardinality(live) |->
                            [key |-> order[i], value |-> last[order[i]],
                             dataType |-> IF last[order[i]].kind = "int64"
                                            THEN DataTypeInt64 ELSE DataTypeString]])]_vars


\* C28 (index entries reference live files): whenever mu is not held
\* exclusively, every index entry names a file that exists in the directory
\* and is a member of segments or the active segment; a file of segsBefore is
\* removed only while its compaction holds mu exclusively and no index entry
\* names it.
C28_IndexReferencesLive ==
  /\ []((phase = "open" /\ mu = "free") =>
          \A k \in DOMAIN index :
             /\ index[k].segment \in DOMAIN disk
             /\ \/ index[k].segment = currentSegment
                \/ \E i \in 1..Len(segments) : segments[i] = index[k].segment)
  /\ [][\A name \in DOMAIN disk \ DOMAIN disk' :
          (\E t \in DOMAIN comp : \E i \in 1..Len(comp[t].segsBefore) :
              comp[t].segsBefore[i] = name) =>
             /\ mu = "compact"
             /\ \E t \in DOMAIN comp :
                   comp[t].pc = "remove" /\ comp[t].segsBefore[comp[t].i] = name
             /\ \A k \in DOMAIN index : index[k].segment # name]_vars


\* C29 (ordering): with a strictly increasing clock, on an open engine the
\* timestamps of segments are strictly ascending, the timestamp of the active
\* segment is greater than that of every sealed one, the names in segments
\* and the active name are pairwise distinct, and the list followed by the
\* active segment is in the order loadSegments gives these files.
C29_Ordering ==
  phase = "open" =>
    /\ \A i, j \in 1..Len(segments) :
          i < j => ParseInt(segments[i]).ts < ParseInt(segments[j]).ts
    /\ \A i \in 1..Len(segments) :
          ParseInt(segments[i]).ts < ParseInt(currentSegment).ts
    /\ Cardinality({ segments[i] : i \in 1..Len(segments) } \cup { currentSegment })
         = Len(segments) + 1
    /\ Append(segments, currentSegment)
         = loadSegments([name \in { segments[i] : i \in 1..Len(segments) }
                                    \cup { currentSegment } |-> << >>])


\* C30 (compaction reduces the sealed set): without I/O errors and under fair
\* scheduling, a sealed segment that is in the list when the list has reached
\* compactionThreshold is eventually compacted away, and when no put is in
\* progress and no compaction runs or waits to run the list is shorter than
\* compactionThreshold, also when puts rotated during an earlier compaction.
C30_CompactionReduces ==
  /\ []((phase = "open" /\ DOMAIN comp = {} /\ mu = "free") =>
          Len(segments) < compactionThreshold)
  /\ \A s \in 1..(2 * MaxPuts + 4) :
        (/\ phase = "open"
         /\ Len(segments) >= compactionThreshold
         /\ \E i \in 1..Len(segments) : segments[i] = s)
          ~> (\A i \in 1..Len(segments) : segments[i] # s)


\* C31 (dispatch rule): a put starts a compaction goroutine exactly when it
\* has rotated and the list of sealed segments has then reached
\* compactionThreshold; the timestamp it hands over was read before the new
\* active segment was created; the put leaves the goroutines that run and the
\* compacting flag alone, and it returns nil whatever they do.
C31_DispatchRule ==
  [][(nputs' = nputs + 1) =>
       /\ DOMAIN comp' \ DOMAIN comp =
            IF currentSegment' # currentSegment /\ Len(segments') >= compactionThreshold
              THEN { clock + 1 } ELSE {}
       /\ \A t \in DOMAIN comp' \ DOMAIN comp :
             /\ comp'[t] = NewTask
             /\ t > clock
             /\ t < currentSegment'
             /\ t \notin DOMAIN disk'
       /\ \A t \in DOMAIN comp : t \in DOMAIN comp' /\ comp'[t] = comp[t]
       /\ compacting' = compacting
       /\ putErr' = "nil"]_vars

\* A put has just rotated and started a compaction goroutine while an earlier
\* compaction, which has failed, still held the flag.
C31_Witness ==
  /\ putErr = "nil"
  /\ currentSegment = clock
  /\ clock - 1 \in DOMAIN comp
  /\ comp[clock - 1] = NewTask
  /\ \E t \in DOMAIN comp : comp[t].pc = "cleanup"


\* C32 (segment scan): on a file that is a concatenation of valid frames
\* getIndexFromPath returns without an error a map whose keys are the keys
\* that occur in the file, each with the offset of the first byte of the last
\* frame of that key, the sum of the lengths of the frames before it.
C32_SegmentScan ==
  (codec.pc = "scanned" /\ codec.f = EncodeAll(codec.recs)) =>
     /\ codec.scan.ok
     /\ DOMAIN codec.scan.index = { codec.recs[j].key : j \in 1..Len(codec.recs) }
     /\ \A j \in 1..Len(codec.recs) :
           (\A l \in (j + 1)..Len(codec.recs) : codec.recs[l].key # codec.recs[j].key) =>
              codec.scan.index[codec.recs[j].key]
                = recordPosition(1, FrameStart(codec.recs, j - 1))


\* C33 (index integrity): without I/O errors, on an open engine every index
\* entry names a file and an offset at which a complete frame starts that
\* holds the entry's key and the value last put for it, and currentOffset is
\* the size of the active segment's file.
C33_IndexIntegrity ==
  phase = "open" =>
    /\ \A k \in DOMAIN index :
          /\ index[k].segment \in DOMAIN disk
          /\ \E frame \in { Encode([key |-> k, value |-> last[k],
                                    dataType |-> IF last[k].kind = "int64"
                                                   THEN DataTypeInt64
                                                   ELSE DataTypeString]).bytes } :
                SubSeq(disk[index[k].segment], index[k].offset + 1,
                       index[k].offset + Len(frame)) = frame
    /\ currentSegment \in DOMAIN disk
    /\ currentOffset = Len(disk[currentSegment])

\* C34: every call of Close returns, the first one as well as one made after
\* an earlier Close of the same engine has returned.
C34_CloseRepeats == [](closer = "locked" => <>(closer = "done"))

\* C35: once Close has returned, no compaction goroutine holds the compacting
\* flag, and no step creates segment-tmp, renames or removes a file, or changes
\* segments or index; a goroutine dispatched before Close and scheduled after
\* it returns at the compare-and-swap.  An Open of the directory that follows
\* makes another engine.
C35_NoCompactionAfterClose ==
  [][(closer = "done" /\ opens' = opens) =>
       /\ UNCHANGED << disk, segments, index >>
       /\ ~Compacting'
       /\ \A t \in DOMAIN comp' : t \in DOMAIN comp]_vars

\* Close has returned while a goroutine dispatched by an earlier put has not
\* yet made its compare-and-swap.
C35_Witness == closer = "done" /\ fileClosed /\ \E t \in DOMAIN comp : comp[t].pc = "cas"

\* C36: under fair scheduling and without I/O faults a client that waits for
\* db.mu gets it (mu.Lock() of Put, mu.RLock() of Get and Size) and a Get in
\* progress returns, whatever rotations, compactions and Close do; and in no
\* state is every goroutine that is inside a call blocked.
C36_ClientProgress ==
  /\ [](~CanLock => <>CanLock)
  /\ [](reader.pc = "locked" => <>(reader.pc = "idle"))
  /\ [](~(closer = "parked" /\ DOMAIN comp = {} /\ reader.pc = "idle"))

\* C37: at most one goroutine at a time is between its os.Create of
\* segment-tmp and the end of its deferred functions, and while the process
\* has never stopped (every engine so far was opened on a directory without
\* segment-tmp) and the compacting flag is false, the directory holds no file
\* named segment-tmp.
C37_TmpLifetime ==
  /\ Cardinality({ t \in DOMAIN comp : HoldsFlag(t) }) <= 1
  /\ (phase = "open" /\ crashAt = "none" /\ ~compacting) => TmpName \notin DOMAIN disk

\* The flag is false again after one compaction has failed and its cleanup
\* has run, and another one has renamed segment-tmp and committed.
C37_Witness ==
  /\ phase = "open" /\ crashAt = "none" /\ ~compacting
  /\ faults > 0 /\ commits > 0 /\ DOMAIN comp = {}

\* C38: when a compaction renames segment-tmp to segment-<ts>, no file of that
\* name exists: ts names neither the active segment nor a sealed one, on a
\* clock whose readings strictly increase and on one that repeats a reading.
C38_RenameTargetFresh ==
  [][\A t \in DOMAIN comp :
       (comp[t].pc = "rename" /\ t \in DOMAIN comp' /\ comp'[t].pc = "snapshot2") =>
         /\ t \notin DOMAIN disk
         /\ t # currentSegment
         /\ \A i \in 1..Len(segments) : segments[i] # t]_vars

\* C39: when chooseHealthy reports that no server is healthy, the handler
\* answers 503 and does not call forward: no request goes to an empty
\* destination and the status of the response is written once.
C39_NoHealthyBackend ==
  (balancer.n > 0 /\ balancer.res.err = "no healthy servers available") =>
     /\ balancer.dst = << >>
     /\ balancer.status = << StatusServiceUnavailable >>

=========================================================================
